---- MODULE Spec2Model ----
(***************************************************************************)
(* Library service (FastAPI + SQLAlchemy): books, readers and the          *)
(* circulation workflow (borrow / return) over one relational store.       *)
(*                                                                         *)
(* The specifications share the variables:                                 *)
(*   Spec      circulation, requests handled one at a time; every handler  *)
(*             is one atomic action (all its SELECTs see the same store).  *)
(*   SpecStock the same, with every input of the book requests             *)
(*             (create, update) and fewer loans.                           *)
(*   SpecList  circulation with the listing of a reader's active loans.    *)
(*   SpecCrud  create and update of books and readers, one at a time.      *)
(*   SpecAuth  every protected route behind get_current_user.              *)
(*   SpecDelete  circulation with the deletion of books and readers.       *)
(*   SpecConc  the borrow and return requests of two sessions interleave   *)
(*             at their await points; each SELECT reads the committed      *)
(*             store, writes are buffered in the session's transaction     *)
(*             and become visible at COMMIT.                               *)
(*   SpecLimit concurrent borrow requests after a serial history.          *)
(*   SpecCrudConc  the create and update requests of two sessions          *)
(*             interleave.                                                 *)
(* Timestamps are abstracted to NULL / NotNull: datetime.now() is only     *)
(* ever stored, never compared.  borrow_date is always non-null and is     *)
(* left out of the rows.                                                   *)
(***************************************************************************)
EXTENDS Integers, Sequences, FiniteSets, TLC

\* ---------------------------------------------------------------- bounds
MaxCopies == 2      \* largest copy count a create/update request carries
MaxLoans  == 4      \* Spec: cap on the number of borrowed_books rows ever inserted
MaxStockLoans == 2  \* SpecStock: the same cap
MaxPriorLoans == 2  \* SpecLimit: loans made before the concurrent requests
MaxListLoans  == 3  \* SpecList: cap on the number of borrowed_books rows
MaxAuthLoans  == 1  \* SpecAuth: the same cap
MaxDeleteLoans == 2 \* SpecDelete: the same cap

\* ------------------------------------------------------- program constants
BORROW_LIMIT == 3   \* "if active_borrows >= 3"

\* ------------------------------------------------------------ input domains
BookIds   == {1, 2}
ReaderIds == {1, 2}
Isbns     == {"111", "222"}
Emails    == {"a@b.com", "c@d.com"}
Names     == {"Ann", "Bob"}
CopiesIn  == (-1) .. MaxCopies      \* request values, -1 is rejected by the schema
Procs     == {1, 2}                 \* SpecConc: the sessions, one request each

NULL  == "NULL"
NOW   == "NotNull"                  \* any value of datetime.now()

VARIABLES
    books,            \* table books:          id -> [exists, deleted, isbn, copies]
    readers,          \* table readers:        id -> [exists, deleted, name, email]
    borrowed_books,   \* table borrowed_books: sequence of rows, in insertion order
    resp,             \* the response of the last completed request
    req               \* SpecConc: per session, the request in flight and its locals

vars == <<books, readers, borrowed_books, resp, req>>
db   == <<books, readers, borrowed_books>>

\* ------------------------------------------------------------------ tables
\* `deleted` marks an id whose row was deleted: the sequence of the primary
\* key does not hand it out again
NoBook   == [exists |-> FALSE, deleted |-> FALSE, isbn |-> NULL, copies |-> 0]
NoReader == [exists |-> FALSE, deleted |-> FALSE, name |-> NULL, email |-> NULL]

Book(isbn, copies) ==
    [exists |-> TRUE, deleted |-> FALSE, isbn |-> isbn, copies |-> copies]
Reader(name, email) ==
    [exists |-> TRUE, deleted |-> FALSE, name |-> name, email |-> email]

BorrowedBook(id, book_id, reader_id) ==
    [id |-> id, book_id |-> book_id, reader_id |-> reader_id, return_date |-> NULL]

\* books.isbn: unique=True, nullable=True.  A row other than `id` holds the
\* same non-null ISBN (id = 0: the row is being inserted).
\* faulty variant: a column without the unique index
isbn_taken_no_index(bks, isbn, id) == FALSE

isbn_taken(bks, isbn, id) ==
    /\ isbn # NULL
    /\ \E x \in BookIds \ {id} : bks[x].exists /\ bks[x].isbn = isbn

\* readers.email: unique=True, nullable=False
email_taken(rds, email, id) ==
    \E x \in ReaderIds \ {id} : rds[x].exists /\ rds[x].email = email

\* model_dump(exclude_unset=True): the fields the request sets
\* faulty variant: every field is dumped, set or not
exclude_unset_off(data) == {"isbn", "copies", "name", "email"}

exclude_unset(data) == data.fields

\* books.copies: CheckConstraint("copies >= 0")
CheckConstraint(copies) == copies >= 0

\* BookBase.copies / BookUpdate.copies: Field(..., ge=0)
copies_field_valid(copies) == copies >= 0

Response(op, book_id, reader_id, status, detail, id) ==
    [op |-> op, book_id |-> book_id, reader_id |-> reader_id,
     status |-> status, detail |-> detail, id |-> id]

NoResponse == Response("none", 0, 0, 0, "none", 0)

\* a session before its request arrives, and after it has ended
Idle == [pc |-> "idle", op |-> "none", book_id |-> 0, reader_id |-> 0,
         copies |-> 0, rec |-> 0]
Done == [Idle EXCEPT !.pc = "done"]

\* serial / autoincrement primary keys
next_id(table, ids) ==
    LET used == {i \in ids : table[i].exists \/ table[i].deleted} IN
    IF used = {} THEN 1
    ELSE 1 + CHOOSE i \in used : \A j \in used : j <= i

\* ------------------------------------------------------------ circulation
\* select(BorrowedBook).where(reader_id == r, return_date.is_(None))
active_borrows(lns, r) ==
    {i \in DOMAIN lns : lns[i].reader_id = r /\ lns[i].return_date = NULL}

\* faulty variant: the filter on return_date is missing
borrow_records_any_date(lns, b, r) ==
    {i \in DOMAIN lns : lns[i].book_id = b /\ lns[i].reader_id = r}

\* select(BorrowedBook).where(book_id == b, reader_id == r, return_date.is_(None))
borrow_records(lns, b, r) ==
    {i \in DOMAIN lns : /\ lns[i].book_id = b
                        /\ lns[i].reader_id = r
                        /\ lns[i].return_date = NULL}

check_book_availability(copies) == ~(copies < 1)

\* faulty variants: the filter on return_date is missing; > instead of >=
check_borrow_limit_counting_all(lns, r) ==
    ~(Cardinality({i \in DOMAIN lns : lns[i].reader_id = r}) >= BORROW_LIMIT)

check_borrow_limit_off_by_one(lns, r) ==
    ~(Cardinality(active_borrows(lns, r)) > BORROW_LIMIT)

check_borrow_limit(lns, r) ==
    ~(Cardinality(active_borrows(lns, r)) >= BORROW_LIMIT)

\* The checks of borrow_book in the order the handler makes them; "ok" when
\* all pass.
\* faulty variants: the limit is checked before the availability; the
\* availability is checked before the existence of the entities
borrow_checks_limit_first(bks, rds, lns, b, r) ==
    IF ~bks[b].exists                            THEN "book_not_found"
    ELSE IF ~rds[r].exists                       THEN "reader_not_found"
    ELSE IF ~check_borrow_limit(lns, r)          THEN "limit_exceeded"
    ELSE IF ~check_book_availability(bks[b].copies) THEN "no_copies"
    ELSE "ok"

borrow_checks_rules_first(bks, rds, lns, b, r) ==
    IF bks[b].exists /\ ~check_book_availability(bks[b].copies) THEN "no_copies"
    ELSE IF ~bks[b].exists                       THEN "book_not_found"
    ELSE IF ~rds[r].exists                       THEN "reader_not_found"
    ELSE IF ~check_borrow_limit(lns, r)          THEN "limit_exceeded"
    ELSE "ok"

borrow_checks(bks, rds, lns, b, r) ==
    IF ~bks[b].exists                            THEN "book_not_found"
    ELSE IF ~rds[r].exists                       THEN "reader_not_found"
    ELSE IF ~check_book_availability(bks[b].copies) THEN "no_copies"
    ELSE IF ~check_borrow_limit(lns, r)          THEN "limit_exceeded"
    ELSE "ok"

error_status(detail) ==
    IF detail \in {"book_not_found", "reader_not_found", "record_not_found"} THEN 404
    ELSE IF detail \in {"no_copies", "limit_exceeded", "isbn_exists", "email_exists"} THEN 400
    ELSE IF detail = "validation" THEN 422
    ELSE 500

\* new_borrow = BorrowedBook(...); book.copies -= 1; db.add(...); commit.
\* `copies` is the copy count the session read; the UPDATE stores the value
\* computed from it.  Result: the two tables after the commit.
\* faulty variants: the copy is not taken; the decrement is not restricted
\* to the borrowed book
create_borrow_record_no_decrement(bks, lns, b, r, copies) ==
    [books |-> bks,
     borrowed_books |-> Append(lns, BorrowedBook(Len(lns) + 1, b, r))]

create_borrow_record_all_books(bks, lns, b, r, copies) ==
    [books |-> [x \in BookIds |-> IF bks[x].exists
                                   THEN [bks[x] EXCEPT !.copies = @ - 1] ELSE bks[x]],
     borrowed_books |-> Append(lns, BorrowedBook(Len(lns) + 1, b, r))]

create_borrow_record(bks, lns, b, r, copies) ==
    [books |-> [bks EXCEPT ![b].copies = copies - 1],
     borrowed_books |-> Append(lns, BorrowedBook(Len(lns) + 1, b, r))]

\* borrow_record.return_date = now(); book.copies += 1; db.add(...); commit.
\* faulty variant: the copy is not put back
return_borrowed_book_no_increment(bks, lns, b, rec, copies) ==
    [books |-> bks,
     borrowed_books |-> [lns EXCEPT ![rec].return_date = NOW]]

return_borrowed_book(bks, lns, b, rec, copies) ==
    [books |-> [bks EXCEPT ![b].copies = copies + 1],
     borrowed_books |-> [lns EXCEPT ![rec].return_date = NOW]]

\* =========================================================================
\* Handlers, one request at a time
\* =========================================================================

\* POST /books.  isbn is a required string of the schema, "" included.
create_book(isbn, copies) ==
    /\ UNCHANGED <<readers, borrowed_books, req>>
    /\ LET id == next_id(books, BookIds) IN
       IF ~copies_field_valid(copies)
       THEN /\ resp' = Response("create_book", 0, 0, 422, "validation", 0)
            /\ UNCHANGED books
       ELSE IF isbn # "" /\ \E x \in BookIds : books[x].exists /\ books[x].isbn = isbn
       THEN \* "if book.isbn:" then the lookup
            /\ resp' = Response("create_book", 0, 0, 400, "isbn_exists", 0)
            /\ UNCHANGED books
       ELSE IF isbn_taken(books, isbn, 0)
       THEN \* the INSERT fails on the unique index, the session rolls back
            /\ resp' = Response("create_book", 0, 0, 500, "integrity_error", 0)
            /\ UNCHANGED books
       ELSE /\ id \in BookIds
            /\ CheckConstraint(copies)
            /\ books' = [books EXCEPT ![id] = Book(isbn, copies)]
            /\ resp' = Response("create_book", id, 0, 201, "ok", id)

\* POST /readers
create_reader(name, email) ==
    /\ UNCHANGED <<books, borrowed_books, req>>
    /\ LET id == next_id(readers, ReaderIds) IN
       IF \E x \in ReaderIds : readers[x].exists /\ readers[x].email = email
       THEN /\ resp' = Response("create_reader", 0, 0, 400, "email_exists", 0)
            /\ UNCHANGED readers
       ELSE /\ id \in ReaderIds
            /\ readers' = [readers EXCEPT ![id] = Reader(name, email)]
            /\ resp' = Response("create_reader", 0, id, 201, "ok", id)

\* PUT /books/{book_id}.  book_data: `fields` are the fields set in the
\* request (model_dump(exclude_unset=True)); copies is <<>> for null.
BookUpdates ==
    [fields : SUBSET {"isbn", "copies"},
     isbn   : Isbns,
     copies : {<<>>} \cup {<<c>> : c \in CopiesIn}]

update_book(book_id, book_data) ==
    /\ UNCHANGED <<readers, borrowed_books, req>>
    /\ LET sets_copies == "copies" \in exclude_unset(book_data)
           sets_isbn   == "isbn" \in exclude_unset(book_data)
           R(status, detail) == Response("update_book", book_id, 0, status, detail, 0)
       IN
       IF sets_copies /\ book_data.copies # <<>> /\ ~copies_field_valid(book_data.copies[1])
       THEN resp' = R(422, "validation") /\ UNCHANGED books
       ELSE IF ~books[book_id].exists
       THEN resp' = R(404, "book_not_found") /\ UNCHANGED books
       ELSE IF sets_copies /\ book_data.copies = <<>>
       THEN \* copies is nullable=False: the UPDATE fails, the session rolls back
            resp' = R(500, "integrity_error") /\ UNCHANGED books
       ELSE IF sets_copies /\ ~CheckConstraint(book_data.copies[1])
       THEN resp' = R(500, "integrity_error") /\ UNCHANGED books
       ELSE IF sets_isbn /\ isbn_taken(books, book_data.isbn, book_id)
       THEN \* isbn is unique=True
            resp' = R(500, "integrity_error") /\ UNCHANGED books
       ELSE /\ books' = [books EXCEPT
                 ![book_id].isbn   = IF sets_isbn THEN book_data.isbn ELSE @,
                 ![book_id].copies = IF sets_copies THEN book_data.copies[1] ELSE @]
            /\ resp' = R(200, "ok")

\* PUT /readers/{reader_id}.  A field that is not set has the schema's
\* default None.
ReaderUpdates ==
    {d \in [fields : SUBSET {"name", "email"},
            name   : Names \cup {NULL},
            email  : Emails \cup {NULL}] :
        /\ "name" \notin d.fields => d.name = NULL
        /\ "email" \notin d.fields => d.email = NULL}

update_reader(reader_id, reader_data) ==
    /\ UNCHANGED <<books, borrowed_books, req>>
    /\ LET sets_name  == "name" \in exclude_unset(reader_data)
           sets_email == "email" \in exclude_unset(reader_data)
           email == IF "email" \in reader_data.fields THEN reader_data.email ELSE NULL
           R(status, detail) == Response("update_reader", 0, reader_id, status, detail, 0)
       IN
       IF ~readers[reader_id].exists
       THEN resp' = R(404, "reader_not_found") /\ UNCHANGED readers
       ELSE IF /\ email # NULL /\ email # readers[reader_id].email
               /\ \E x \in ReaderIds : readers[x].exists /\ readers[x].email = email
       THEN resp' = R(400, "email_exists") /\ UNCHANGED readers
       ELSE IF \/ sets_name /\ reader_data.name = NULL
               \/ sets_email /\ reader_data.email = NULL
       THEN \* name and email are nullable=False
            resp' = R(500, "integrity_error") /\ UNCHANGED readers
       ELSE IF sets_email /\ email_taken(readers, reader_data.email, reader_id)
       THEN resp' = R(500, "integrity_error") /\ UNCHANGED readers
       ELSE /\ readers' = [readers EXCEPT
                 ![reader_id].name  = IF sets_name THEN reader_data.name ELSE @,
                 ![reader_id].email = IF sets_email THEN reader_data.email ELSE @]
            /\ resp' = R(200, "ok")

\* POST /circulation/borrow
\* faulty variant: no availability or limit check, and a books table
\* without its CHECK constraint
borrow_book_unguarded(book_id, reader_id) ==
    /\ UNCHANGED <<readers, req>>
    /\ books[book_id].exists /\ readers[reader_id].exists
    /\ Len(borrowed_books) < MaxLoans
    /\ LET new == create_borrow_record(books, borrowed_books, book_id, reader_id,
                                       books[book_id].copies)
       IN /\ books' = new.books
          /\ borrowed_books' = new.borrowed_books
          /\ resp' = Response("borrow", book_id, reader_id, 201, "ok",
                              Len(borrowed_books) + 1)

\* faulty variant: the copy is taken before the limit is checked and stays
\* taken when the request is refused
borrow_book_no_rollback(book_id, reader_id) ==
    /\ UNCHANGED <<readers, req>>
    /\ LET detail == borrow_checks(books, readers, borrowed_books, book_id, reader_id)
           new    == create_borrow_record(books, borrowed_books, book_id, reader_id,
                                          books[book_id].copies)
       IN
       IF detail = "limit_exceeded"
       THEN /\ resp' = Response("borrow", book_id, reader_id, error_status(detail), detail, 0)
            /\ books' = new.books
            /\ UNCHANGED borrowed_books
       ELSE IF detail # "ok"
       THEN /\ resp' = Response("borrow", book_id, reader_id, error_status(detail), detail, 0)
            /\ UNCHANGED <<books, borrowed_books>>
       ELSE /\ Len(borrowed_books) < MaxLoans
            /\ books' = new.books
            /\ borrowed_books' = new.borrowed_books
            /\ resp' = Response("borrow", book_id, reader_id, 201, "ok",
                                Len(borrowed_books) + 1)

borrow_book(book_id, reader_id) ==
    /\ UNCHANGED <<readers, req>>
    /\ LET detail == borrow_checks(books, readers, borrowed_books, book_id, reader_id)
           new    == create_borrow_record(books, borrowed_books, book_id, reader_id,
                                          books[book_id].copies)
       IN
       IF detail # "ok"
       THEN /\ resp' = Response("borrow", book_id, reader_id, error_status(detail), detail, 0)
            /\ UNCHANGED <<books, borrowed_books>>
       ELSE IF ~CheckConstraint(new.books[book_id].copies)
       THEN /\ resp' = Response("borrow", book_id, reader_id, 500, "integrity_error", 0)
            /\ UNCHANGED <<books, borrowed_books>>
       ELSE /\ Len(borrowed_books) < MaxLoans
            /\ books' = new.books
            /\ borrowed_books' = new.borrowed_books
            /\ resp' = Response("borrow", book_id, reader_id, 201, "ok",
                                Len(borrowed_books) + 1)

\* faulty variant: the loan record is looked up before the reader
return_book_record_first(book_id, reader_id) ==
    /\ UNCHANGED <<readers, req>>
    /\ LET recs == borrow_records(borrowed_books, book_id, reader_id)
           R(status, detail, id) == Response("return", book_id, reader_id, status, detail, id)
       IN
       IF ~books[book_id].exists
       THEN resp' = R(404, "book_not_found", 0) /\ UNCHANGED <<books, borrowed_books>>
       ELSE IF recs = {}
       THEN resp' = R(404, "record_not_found", 0) /\ UNCHANGED <<books, borrowed_books>>
       ELSE IF ~readers[reader_id].exists
       THEN resp' = R(404, "reader_not_found", 0) /\ UNCHANGED <<books, borrowed_books>>
       ELSE IF Cardinality(recs) > 1
       THEN resp' = R(500, "multiple_results", 0) /\ UNCHANGED <<books, borrowed_books>>
       ELSE LET rec == CHOOSE i \in recs : TRUE
                new == return_borrowed_book(books, borrowed_books, book_id, rec,
                                            books[book_id].copies)
            IN /\ books' = new.books
               /\ borrowed_books' = new.borrowed_books
               /\ resp' = R(200, "ok", rec)

\* POST /circulation/return.  scalar_one_or_none() raises MultipleResultsFound
\* when the pair has two or more active rows: the request ends in a 500.
return_book(book_id, reader_id) ==
    /\ UNCHANGED <<readers, req>>
    /\ LET recs == borrow_records(borrowed_books, book_id, reader_id)
           R(status, detail, id) == Response("return", book_id, reader_id, status, detail, id)
       IN
       IF ~books[book_id].exists
       THEN resp' = R(404, "book_not_found", 0) /\ UNCHANGED <<books, borrowed_books>>
       ELSE IF ~readers[reader_id].exists
       THEN resp' = R(404, "reader_not_found", 0) /\ UNCHANGED <<books, borrowed_books>>
       ELSE IF recs = {}
       THEN resp' = R(404, "record_not_found", 0) /\ UNCHANGED <<books, borrowed_books>>
       ELSE IF Cardinality(recs) > 1
       THEN resp' = R(500, "multiple_results", 0) /\ UNCHANGED <<books, borrowed_books>>
       ELSE LET rec == CHOOSE i \in recs : TRUE
                new == return_borrowed_book(books, borrowed_books, book_id, rec,
                                            books[book_id].copies)
            IN /\ books' = new.books
               /\ borrowed_books' = new.borrowed_books
               /\ resp' = R(200, "ok", rec)

\* GET /books, GET /books/{book_id}: the rows found are the read result
get_books ==
    /\ UNCHANGED <<db, req>>
    /\ resp' = [op |-> "get_books", book_id |-> 0, reader_id |-> 0,
                status |-> 200, detail |-> "ok", id |-> 0,
                rows |-> {<<b, books[b]>> : b \in {x \in BookIds : books[x].exists}}]

get_book(book_id) ==
    /\ UNCHANGED <<db, req>>
    /\ IF ~books[book_id].exists
       THEN resp' = Response("get_book", book_id, 0, 404, "book_not_found", 0)
       ELSE resp' = [op |-> "get_book", book_id |-> book_id, reader_id |-> 0,
                     status |-> 200, detail |-> "ok", id |-> book_id,
                     rows |-> {<<book_id, books[book_id]>>}]

\* DELETE /books/{book_id}.  borrowed_books.book_id is a foreign key without
\* ON DELETE: the DELETE of a book that has loan rows fails, the session
\* rolls back.
\* faulty variant: a store that does not enforce the foreign key
delete_book_no_foreign_key(book_id) ==
    /\ UNCHANGED <<readers, borrowed_books, req>>
    /\ IF ~books[book_id].exists
       THEN /\ resp' = Response("delete_book", book_id, 0, 404, "book_not_found", 0)
            /\ UNCHANGED books
       ELSE /\ books' = [books EXCEPT ![book_id] = [NoBook EXCEPT !.deleted = TRUE]]
            /\ resp' = Response("delete_book", book_id, 0, 204, "ok", 0)

delete_book(book_id) ==
    /\ UNCHANGED <<readers, borrowed_books, req>>
    /\ IF ~books[book_id].exists
       THEN /\ resp' = Response("delete_book", book_id, 0, 404, "book_not_found", 0)
            /\ UNCHANGED books
       ELSE IF \E i \in DOMAIN borrowed_books : borrowed_books[i].book_id = book_id
       THEN /\ resp' = Response("delete_book", book_id, 0, 500, "integrity_error", 0)
            /\ UNCHANGED books
       ELSE /\ books' = [books EXCEPT ![book_id] = [NoBook EXCEPT !.deleted = TRUE]]
            /\ resp' = Response("delete_book", book_id, 0, 204, "ok", 0)

\* GET /readers, GET /readers/{reader_id}
get_readers ==
    /\ UNCHANGED <<db, req>>
    /\ resp' = [op |-> "get_readers", book_id |-> 0, reader_id |-> 0,
                status |-> 200, detail |-> "ok", id |-> 0,
                rows |-> {<<r, readers[r]>> : r \in {x \in ReaderIds : readers[x].exists}}]

get_reader(reader_id) ==
    /\ UNCHANGED <<db, req>>
    /\ IF ~readers[reader_id].exists
       THEN resp' = Response("get_reader", 0, reader_id, 404, "reader_not_found", 0)
       ELSE resp' = [op |-> "get_reader", book_id |-> 0, reader_id |-> reader_id,
                     status |-> 200, detail |-> "ok", id |-> reader_id,
                     rows |-> {<<reader_id, readers[reader_id]>>}]

\* DELETE /readers/{reader_id}
delete_reader(reader_id) ==
    /\ UNCHANGED <<books, borrowed_books, req>>
    /\ IF ~readers[reader_id].exists
       THEN /\ resp' = Response("delete_reader", 0, reader_id, 404, "reader_not_found", 0)
            /\ UNCHANGED readers
       ELSE IF \E i \in DOMAIN borrowed_books : borrowed_books[i].reader_id = reader_id
       THEN /\ resp' = Response("delete_reader", 0, reader_id, 500, "integrity_error", 0)
            /\ UNCHANGED readers
       ELSE /\ readers' = [readers EXCEPT ![reader_id] = [NoReader EXCEPT !.deleted = TRUE]]
            /\ resp' = Response("delete_reader", 0, reader_id, 204, "ok", 0)

\* services.circulation.get_active_borrows: one SELECT on borrowed_books,
\* the rows found are returned (as their ids); the readers table is not read.
get_active_borrows(reader_id) ==
    /\ UNCHANGED <<db, req>>
    /\ resp' = [op |-> "get_active_borrows", book_id |-> 0, reader_id |-> reader_id,
                status |-> 200, detail |-> "ok", id |-> 0,
                rows |-> active_borrows(borrowed_books, reader_id)]

\* ---------------------------------------------------------- authentication
\* The Authorization header of a request: absent, a bearer string that is
\* no signed token, an expired token, a valid token of user 1 or of user 2.
Tokens == {"none", "garbage", "expired", "valid_1", "valid_2"}

\* table users: one registered user
Users == {1}

\* verifyToken(token) -> subjectId | fails with InvalidToken (0)
verify_token(token) ==
    IF token = "valid_1" THEN 1
    ELSE IF token = "valid_2" THEN 2
    ELSE 0

\* Depends(oauth2_scheme) answers 401 when the header is absent; any
\* exception of verify_token, of int(sub) or the missing user row ends in
\* 401.  Result: the id of the user, 0 for HTTPException(401).
\* faulty variant: the token is not verified, any bearer string is taken
get_current_user_unverified(token) ==
    IF token = "none" THEN 0 ELSE 1

get_current_user(token) ==
    IF token = "none" THEN 0
    ELSE LET user_id == verify_token(token) IN
         IF user_id = 0 THEN 0
         ELSE IF user_id \notin Users THEN 0
         ELSE user_id

\* user=Depends(get_current_user): the dependency is resolved before the
\* handler is called
Depends_get_current_user(token, op, handler) ==
    IF get_current_user(token) = 0
    THEN /\ resp' = Response(op, 0, 0, 401, "unauthorized", 0)
         /\ UNCHANGED <<db, req>>
    ELSE handler

POST_books(token, isbn, copies) ==
    Depends_get_current_user(token, "create_book", create_book(isbn, copies))
GET_books(token) ==
    Depends_get_current_user(token, "get_books", get_books)
GET_book(token, book_id) ==
    Depends_get_current_user(token, "get_book", get_book(book_id))
PUT_book(token, book_id, book_data) ==
    Depends_get_current_user(token, "update_book", update_book(book_id, book_data))
DELETE_book(token, book_id) ==
    Depends_get_current_user(token, "delete_book", delete_book(book_id))
POST_readers(token, name, email) ==
    Depends_get_current_user(token, "create_reader", create_reader(name, email))
GET_readers(token) ==
    Depends_get_current_user(token, "get_readers", get_readers)
GET_reader(token, reader_id) ==
    Depends_get_current_user(token, "get_reader", get_reader(reader_id))
PUT_reader(token, reader_id, reader_data) ==
    Depends_get_current_user(token, "update_reader", update_reader(reader_id, reader_data))
DELETE_reader(token, reader_id) ==
    Depends_get_current_user(token, "delete_reader", delete_reader(reader_id))
POST_borrow(token, book_id, reader_id) ==
    Depends_get_current_user(token, "borrow", borrow_book(book_id, reader_id))
POST_return(token, book_id, reader_id) ==
    Depends_get_current_user(token, "return", return_book(book_id, reader_id))

Init ==
    /\ books = [b \in BookIds |-> NoBook]
    /\ readers = [r \in ReaderIds |-> NoReader]
    /\ borrowed_books = <<>>
    /\ resp = NoResponse
    /\ req = [p \in Procs |-> Idle]

\* Inputs of the circulation specifications: the n-th book and reader are
\* registered with distinct ISBNs / e-mails.
isbn_of(id)  == IF id = 1 THEN "111" ELSE "222"
email_of(id) == IF id = 1 THEN "a@b.com" ELSE "c@d.com"

register_book ==
    \E copies \in CopiesIn : create_book(isbn_of(next_id(books, BookIds)), copies)

register_reader == create_reader("Ann", email_of(next_id(readers, ReaderIds)))

Next ==
    \/ register_book
    \/ register_reader
    \/ Len(borrowed_books) < MaxLoans
         /\ \E b \in BookIds, r \in ReaderIds : borrow_book(b, r)
    \/ \E b \in BookIds, r \in ReaderIds : return_book(b, r)

Spec == Init /\ [][Next]_vars

\* Stock keeping: all book requests with all their inputs, few loans.
NextStock ==
    \/ \E isbn \in Isbns, copies \in CopiesIn : create_book(isbn, copies)
    \/ register_reader
    \/ \E b \in BookIds, d \in BookUpdates : update_book(b, d)
    \/ Len(borrowed_books) < MaxStockLoans
         /\ \E b \in BookIds, r \in ReaderIds : borrow_book(b, r)
    \/ \E b \in BookIds, r \in ReaderIds : return_book(b, r)

SpecStock == Init /\ [][NextStock]_vars

\* =========================================================================
\* Handlers of concurrent sessions (one AsyncSession per request, get_db).
\* A step is the code between two awaits.  SELECTs read the committed
\* tables; db.commit() flushes UPDATE books (which takes the row lock and
\* checks the table constraints), then writes borrowed_books and COMMITs.
\* =========================================================================
respond(p, status, detail, id) ==
    /\ resp' = Response(req[p].op, req[p].book_id, req[p].reader_id, status, detail, id)
    /\ req' = [req EXCEPT ![p] = Done]

goto(p, pc) == req' = [req EXCEPT ![p].pc = pc] /\ UNCHANGED resp

\* the books row is locked by a session that has flushed its UPDATE
row_locked(book_id) == \E q \in Procs : req[q].pc = "commit" /\ req[q].book_id = book_id

receive(p, op, book_id, reader_id) ==
    /\ req[p].pc = "idle"
    /\ req' = [req EXCEPT ![p] = [Idle EXCEPT !.pc = "select_book", !.op = op,
                                   !.book_id = book_id, !.reader_id = reader_id]]
    /\ UNCHANGED <<db, resp>>

borrow_select_book(p) ==
    /\ req[p].op = "borrow" /\ req[p].pc = "select_book"
    /\ UNCHANGED db
    /\ IF ~books[req[p].book_id].exists
       THEN respond(p, 404, "book_not_found", 0)
       ELSE /\ req' = [req EXCEPT ![p].pc = "select_reader",
                                  ![p].copies = books[req[p].book_id].copies]
            /\ UNCHANGED resp

borrow_select_reader(p) ==
    /\ req[p].op = "borrow" /\ req[p].pc = "select_reader"
    /\ UNCHANGED db
    /\ IF ~readers[req[p].reader_id].exists
       THEN respond(p, 404, "reader_not_found", 0)
       ELSE IF ~check_book_availability(req[p].copies)
       THEN respond(p, 400, "no_copies", 0)
       ELSE goto(p, "select_borrows")

borrow_select_borrows(p) ==
    /\ req[p].op = "borrow" /\ req[p].pc = "select_borrows"
    /\ UNCHANGED db
    /\ IF ~check_borrow_limit(borrowed_books, req[p].reader_id)
       THEN respond(p, 400, "limit_exceeded", 0)
       ELSE goto(p, "flush")

\* faulty variant: the UPDATE is committed on its own (autocommit)
borrow_flush_autocommit(p) ==
    /\ req[p].op = "borrow" /\ req[p].pc = "flush"
    /\ ~row_locked(req[p].book_id)
    /\ UNCHANGED <<readers, borrowed_books>>
    /\ IF ~CheckConstraint(req[p].copies - 1)
       THEN respond(p, 500, "integrity_error", 0) /\ UNCHANGED books
       ELSE /\ books' = [books EXCEPT ![req[p].book_id].copies = req[p].copies - 1]
            /\ goto(p, "commit")

borrow_flush(p) ==
    /\ req[p].op = "borrow" /\ req[p].pc = "flush"
    /\ ~row_locked(req[p].book_id)
    /\ UNCHANGED db
    /\ IF ~CheckConstraint(req[p].copies - 1)
       THEN respond(p, 500, "integrity_error", 0)
       ELSE goto(p, "commit")

\* faulty variant: the decrement is applied to the committed count rather
\* than stored from the session's read, after the constraint was checked
\* on the session's own value
borrow_commit_relative(p) ==
    /\ req[p].op = "borrow" /\ req[p].pc = "commit"
    /\ LET new == create_borrow_record(books, borrowed_books, req[p].book_id,
                                       req[p].reader_id, books[req[p].book_id].copies)
       IN /\ books' = new.books
          /\ borrowed_books' = new.borrowed_books
    /\ UNCHANGED readers
    /\ respond(p, 201, "ok", Len(borrowed_books) + 1)

borrow_commit(p) ==
    /\ req[p].op = "borrow" /\ req[p].pc = "commit"
    /\ LET new == create_borrow_record(books, borrowed_books, req[p].book_id,
                                       req[p].reader_id, req[p].copies)
       IN /\ books' = new.books
          /\ borrowed_books' = new.borrowed_books
    /\ UNCHANGED readers
    /\ respond(p, 201, "ok", Len(borrowed_books) + 1)

return_select_book(p) ==
    /\ req[p].op = "return" /\ req[p].pc = "select_book"
    /\ UNCHANGED db
    /\ IF ~books[req[p].book_id].exists
       THEN respond(p, 404, "book_not_found", 0)
       ELSE /\ req' = [req EXCEPT ![p].pc = "select_reader",
                                  ![p].copies = books[req[p].book_id].copies]
            /\ UNCHANGED resp

return_select_reader(p) ==
    /\ req[p].op = "return" /\ req[p].pc = "select_reader"
    /\ UNCHANGED db
    /\ IF ~readers[req[p].reader_id].exists
       THEN respond(p, 404, "reader_not_found", 0)
       ELSE goto(p, "select_record")

return_select_record(p) ==
    /\ req[p].op = "return" /\ req[p].pc = "select_record"
    /\ UNCHANGED db
    /\ LET recs == borrow_records(borrowed_books, req[p].book_id, req[p].reader_id) IN
       IF recs = {}
       THEN respond(p, 404, "record_not_found", 0)
       ELSE IF Cardinality(recs) > 1
       THEN respond(p, 500, "multiple_results", 0)
       ELSE /\ req' = [req EXCEPT ![p].pc = "flush",
                                  ![p].rec = CHOOSE i \in recs : TRUE]
            /\ UNCHANGED resp

return_flush(p) ==
    /\ req[p].op = "return" /\ req[p].pc = "flush"
    /\ ~row_locked(req[p].book_id)
    /\ UNCHANGED db
    /\ IF ~CheckConstraint(req[p].copies + 1)
       THEN respond(p, 500, "integrity_error", 0)
       ELSE goto(p, "commit")

return_commit(p) ==
    /\ req[p].op = "return" /\ req[p].pc = "commit"
    /\ LET new == return_borrowed_book(books, borrowed_books, req[p].book_id,
                                       req[p].rec, req[p].copies)
       IN /\ books' = new.books
          /\ borrowed_books' = new.borrowed_books
    /\ UNCHANGED readers
    /\ respond(p, 200, "ok", req[p].rec)

\* The caller drops the connection: the handler is cancelled at its current
\* await, get_db closes the session and the open transaction rolls back
\* ("rolled_back" when the UPDATE had been flushed, "cancelled" before).
abort(p) ==
    /\ req[p].pc \notin {"idle", "done", "cancelled", "rolled_back"}
    /\ req' = [req EXCEPT ![p] = [Idle EXCEPT !.pc =
                  IF req[p].pc = "commit" THEN "rolled_back" ELSE "cancelled"]]
    /\ UNCHANGED <<db, resp>>

\* no request is in flight
quiet == \A q \in Procs : req[q].pc \in {"idle", "done", "cancelled", "rolled_back"}

NextConc ==
    \/ quiet /\ register_book
    \/ quiet /\ register_reader
    \/ \E p \in Procs, b \in BookIds, r \in ReaderIds : receive(p, "borrow", b, r)
    \/ \E p \in Procs, b \in BookIds, r \in ReaderIds : receive(p, "return", b, r)
    \/ \E p \in Procs : borrow_select_book(p)
    \/ \E p \in Procs : borrow_select_reader(p)
    \/ \E p \in Procs : borrow_select_borrows(p)
    \/ \E p \in Procs : borrow_flush(p)
    \/ \E p \in Procs : borrow_commit(p)
    \/ \E p \in Procs : return_select_book(p)
    \/ \E p \in Procs : return_select_reader(p)
    \/ \E p \in Procs : return_select_record(p)
    \/ \E p \in Procs : return_flush(p)
    \/ \E p \in Procs : return_commit(p)
    \/ \E p \in Procs : abort(p)

SpecConc == Init /\ [][NextConc]_vars

\* The create and update requests of books and readers, one at a time, with
\* the empty ISBN and the null ISBN among the inputs.
IsbnsIn == Isbns \cup {""}

BookUpdatesCrud ==
    {d \in [fields : SUBSET {"isbn", "copies"},
            isbn   : IsbnsIn \cup {NULL},
            copies : {<<>>} \cup {<<c>> : c \in 0 .. MaxCopies}] :
        /\ "isbn" \notin d.fields => d.isbn = NULL
        /\ "copies" \notin d.fields => d.copies = <<>>}

NextCrud ==
    \/ \E isbn \in IsbnsIn, copies \in CopiesIn : create_book(isbn, copies)
    \/ \E name \in Names, email \in Emails : create_reader(name, email)
    \/ \E b \in BookIds, d \in BookUpdatesCrud : update_book(b, d)
    \/ \E r \in ReaderIds, d \in ReaderUpdates : update_reader(r, d)

SpecCrud == Init /\ [][NextCrud]_vars

\* Every protected route with every kind of Authorization header.  The
\* bodies of the requests are few: the n-th book comes with its ISBN and 1
\* copy, the n-th reader with their e-mail; an update sets the copy count
\* to MaxCopies or the name to "Bob".
AuthBookUpdates ==
    {d \in BookUpdatesCrud : d.fields = {"copies"} /\ d.copies = <<MaxCopies>>}
AuthReaderUpdates ==
    {d \in ReaderUpdates : d.fields = {"name"} /\ d.name = "Bob"}
AuthIsbns  == {isbn_of(next_id(books, BookIds))}
AuthEmails == {email_of(next_id(readers, ReaderIds))}

NextAuth ==
    \/ \E t \in Tokens, isbn \in AuthIsbns : POST_books(t, isbn, 1)
    \/ \E t \in Tokens : GET_books(t)
    \/ \E t \in Tokens, b \in BookIds : GET_book(t, b)
    \/ \E t \in Tokens, b \in BookIds, d \in AuthBookUpdates : PUT_book(t, b, d)
    \/ \E t \in Tokens, b \in BookIds : DELETE_book(t, b)
    \/ \E t \in Tokens, email \in AuthEmails : POST_readers(t, "Ann", email)
    \/ \E t \in Tokens : GET_readers(t)
    \/ \E t \in Tokens, r \in ReaderIds : GET_reader(t, r)
    \/ \E t \in Tokens, r \in ReaderIds, d \in AuthReaderUpdates : PUT_reader(t, r, d)
    \/ \E t \in Tokens, r \in ReaderIds : DELETE_reader(t, r)
    \/ Len(borrowed_books) < MaxAuthLoans
         /\ \E t \in Tokens, b \in BookIds, r \in ReaderIds : POST_borrow(t, b, r)
    \/ \E t \in Tokens, b \in BookIds, r \in ReaderIds : POST_return(t, b, r)

SpecAuth == Init /\ [][NextAuth]_vars

\* Circulation with the deletion of books and readers.
NextDelete ==
    \/ register_book
    \/ register_reader
    \/ \E b \in BookIds : delete_book(b)
    \/ \E r \in ReaderIds : delete_reader(r)
    \/ Len(borrowed_books) < MaxDeleteLoans
         /\ \E b \in BookIds, r \in ReaderIds : borrow_book(b, r)
    \/ \E b \in BookIds, r \in ReaderIds : return_book(b, r)

SpecDelete == Init /\ [][NextDelete]_vars

\* Circulation with the listing of a reader's active loans.
NextList ==
    \/ register_book
    \/ register_reader
    \/ Len(borrowed_books) < MaxListLoans
         /\ \E b \in BookIds, r \in ReaderIds : borrow_book(b, r)
    \/ \E b \in BookIds, r \in ReaderIds : return_book(b, r)
    \/ \E r \in ReaderIds : get_active_borrows(r)

SpecList == Init /\ [][NextList]_vars

\* Borrow requests in flight after a serial history: while no request has
\* been received yet, books and readers are registered and up to
\* MaxPriorLoans loans are made one at a time; then the sessions borrow
\* concurrently.
fresh == \A q \in Procs : req[q].pc = "idle"

NextLimit ==
    \/ fresh /\ register_book
    \/ fresh /\ register_reader
    \/ fresh /\ Len(borrowed_books) < MaxPriorLoans
             /\ \E b \in BookIds, r \in ReaderIds : borrow_book(b, r)
    \/ \E p \in Procs, b \in BookIds, r \in ReaderIds : receive(p, "borrow", b, r)
    \/ \E p \in Procs : borrow_select_book(p)
    \/ \E p \in Procs : borrow_select_reader(p)
    \/ \E p \in Procs : borrow_select_borrows(p)
    \/ \E p \in Procs : borrow_flush(p)
    \/ \E p \in Procs : borrow_commit(p)

SpecLimit == Init /\ [][NextLimit]_vars

\* ------------------------------------------------ create / update sessions
\* The create and update requests of two sessions interleave at their
\* awaits.  `value` is the ISBN or e-mail of the request, `old` the value of
\* the row the session loaded.  The INSERT / UPDATE and its COMMIT are one
\* step: the unique index makes a second writer of the same key wait for
\* the first one's commit and then fail.
receive_crud(p, op, id, value) ==
    /\ req[p].pc = "idle"
    /\ req' = [req EXCEPT ![p] =
                 [pc |-> "select", op |-> op,
                  book_id |-> IF op \in {"create_book", "update_book"} THEN id ELSE 0,
                  reader_id |-> IF op \in {"create_reader", "update_reader"} THEN id ELSE 0,
                  copies |-> 0, rec |-> 0, value |-> value, old |-> NULL]]
    /\ UNCHANGED <<db, resp>>

create_book_select(p) ==
    /\ req[p].op = "create_book" /\ req[p].pc = "select"
    /\ UNCHANGED db
    /\ IF /\ req[p].value # ""
          /\ \E x \in BookIds : books[x].exists /\ books[x].isbn = req[p].value
       THEN respond(p, 400, "isbn_exists", 0)
       ELSE goto(p, "commit")

create_book_commit(p) ==
    /\ req[p].op = "create_book" /\ req[p].pc = "commit"
    /\ UNCHANGED <<readers, borrowed_books>>
    /\ LET id == next_id(books, BookIds) IN
       IF isbn_taken(books, req[p].value, 0)
       THEN respond(p, 500, "integrity_error", 0) /\ UNCHANGED books
       ELSE /\ id \in BookIds
            /\ books' = [books EXCEPT ![id] = Book(req[p].value, 1)]
            /\ respond(p, 201, "ok", id)

update_book_select(p) ==
    /\ req[p].op = "update_book" /\ req[p].pc = "select"
    /\ UNCHANGED db
    /\ IF ~books[req[p].book_id].exists
       THEN respond(p, 404, "book_not_found", 0)
       ELSE /\ req' = [req EXCEPT ![p].pc = "commit",
                                  ![p].old = books[req[p].book_id].isbn]
            /\ UNCHANGED resp

\* setattr with the value the row already has leaves the row clean: no
\* UPDATE is sent
update_book_commit(p) ==
    /\ req[p].op = "update_book" /\ req[p].pc = "commit"
    /\ UNCHANGED <<readers, borrowed_books>>
    /\ IF req[p].value = req[p].old
       THEN respond(p, 200, "ok", 0) /\ UNCHANGED books
       ELSE IF isbn_taken(books, req[p].value, req[p].book_id)
       THEN respond(p, 500, "integrity_error", 0) /\ UNCHANGED books
       ELSE /\ books' = [books EXCEPT ![req[p].book_id].isbn = req[p].value]
            /\ respond(p, 200, "ok", 0)

create_reader_select(p) ==
    /\ req[p].op = "create_reader" /\ req[p].pc = "select"
    /\ UNCHANGED db
    /\ IF \E x \in ReaderIds : readers[x].exists /\ readers[x].email = req[p].value
       THEN respond(p, 400, "email_exists", 0)
       ELSE goto(p, "commit")

create_reader_commit(p) ==
    /\ req[p].op = "create_reader" /\ req[p].pc = "commit"
    /\ UNCHANGED <<books, borrowed_books>>
    /\ LET id == next_id(readers, ReaderIds) IN
       IF email_taken(readers, req[p].value, 0)
       THEN respond(p, 500, "integrity_error", 0) /\ UNCHANGED readers
       ELSE /\ id \in ReaderIds
            /\ readers' = [readers EXCEPT ![id] = Reader("Ann", req[p].value)]
            /\ respond(p, 201, "ok", id)

update_reader_select(p) ==
    /\ req[p].op = "update_reader" /\ req[p].pc = "select"
    /\ UNCHANGED db
    /\ IF ~readers[req[p].reader_id].exists
       THEN respond(p, 404, "reader_not_found", 0)
       ELSE /\ req' = [req EXCEPT ![p].pc = "select_email",
                                  ![p].old = readers[req[p].reader_id].email]
            /\ UNCHANGED resp

update_reader_select_email(p) ==
    /\ req[p].op = "update_reader" /\ req[p].pc = "select_email"
    /\ UNCHANGED db
    /\ IF /\ req[p].value # req[p].old
          /\ \E x \in ReaderIds : readers[x].exists /\ readers[x].email = req[p].value
       THEN respond(p, 400, "email_exists", 0)
       ELSE goto(p, "commit")

update_reader_commit(p) ==
    /\ req[p].op = "update_reader" /\ req[p].pc = "commit"
    /\ UNCHANGED <<books, borrowed_books>>
    /\ IF req[p].value = req[p].old
       THEN respond(p, 200, "ok", 0) /\ UNCHANGED readers
       ELSE IF email_taken(readers, req[p].value, req[p].reader_id)
       THEN respond(p, 500, "integrity_error", 0) /\ UNCHANGED readers
       ELSE /\ readers' = [readers EXCEPT ![req[p].reader_id].email = req[p].value]
            /\ respond(p, 200, "ok", 0)

\* Rows are created one request at a time while no session has started;
\* then each session sends one create or update request.
NextCrudConc ==
    \/ fresh /\ \E isbn \in IsbnsIn : create_book(isbn, 1)
    \/ fresh /\ \E email \in Emails : create_reader("Ann", email)
    \/ \E p \in Procs, isbn \in IsbnsIn : receive_crud(p, "create_book", 0, isbn)
    \/ \E p \in Procs, b \in BookIds, isbn \in IsbnsIn \cup {NULL} :
            receive_crud(p, "update_book", b, isbn)
    \/ \E p \in Procs, email \in Emails : receive_crud(p, "create_reader", 0, email)
    \/ \E p \in Procs, r \in ReaderIds, email \in Emails :
            receive_crud(p, "update_reader", r, email)
    \/ \E p \in Procs : create_book_select(p)
    \/ \E p \in Procs : create_book_commit(p)
    \/ \E p \in Procs : update_book_select(p)
    \/ \E p \in Procs : update_book_commit(p)
    \/ \E p \in Procs : create_reader_select(p)
    \/ \E p \in Procs : create_reader_commit(p)
    \/ \E p \in Procs : update_reader_select(p)
    \/ \E p \in Procs : update_reader_select_email(p)
    \/ \E p \in Procs : update_reader_commit(p)

SpecCrudConc == Init /\ [][NextCrudConc]_vars

\* =========================================================================
\* Properties
\* =========================================================================
Rows == DOMAIN borrowed_books

\* C1 (SpecStock): in every state reached by create-book, update-book,
\* borrow and return requests handled one at a time, every book's copy
\* count is >= 0.
C1_CopiesNonNegative ==
    \A b \in BookIds : books[b].exists => books[b].copies >= 0

\* a borrow of a book whose last copy is out was refused
C1_Witness ==
    /\ resp.op = "borrow" /\ resp.detail = "no_copies"
    /\ books[resp.book_id].copies = 0
    /\ \E i \in Rows : borrowed_books[i].book_id = resp.book_id

\* C2 (SpecConc): under every interleaving of the sessions' borrow and
\* return steps, no committed copy count is below 0, and no session is about
\* to commit a copy count below 0.
C2_CopiesNonNegativeConc ==
    /\ \A b \in BookIds : books[b].copies >= 0
    /\ \A p \in Procs :
         (req[p].op = "borrow" /\ req[p].pc = "commit") => req[p].copies - 1 >= 0

\* a session is committing the decrement of a copy count it read before the
\* other session's borrow of the same book took the last copy
C2_Witness ==
    \E p \in Procs :
        /\ req[p].op = "borrow" /\ req[p].pc = "commit"
        /\ req[p].copies = 1
        /\ books[req[p].book_id].copies = 0
        /\ \E i \in Rows : borrowed_books[i].book_id = req[p].book_id

\* C3 (Spec): a reader never has more than 3 rows with a null return
\* timestamp.
C3_AtMostThreeActive ==
    \A r \in ReaderIds : Cardinality(active_borrows(borrowed_books, r)) <= 3

\* a reader holding 3 active loans was refused a further borrow
C3_Witness ==
    /\ resp.op = "borrow" /\ resp.detail = "limit_exceeded"
    /\ Cardinality(active_borrows(borrowed_books, resp.reader_id)) = 3

\* C4 (Spec): a successful borrow(b, r) decrements the copy count of b by
\* exactly 1 and appends exactly one row, with book b, reader r, a fresh id
\* and a null return timestamp; no other book, row or reader changes.
C4_BorrowEffect ==
    [][(resp'.op = "borrow" /\ resp'.status = 201) =>
        LET b == resp'.book_id
            r == resp'.reader_id
            n == Len(borrowed_books)
        IN /\ books'[b].copies = books[b].copies - 1
           /\ books' = [books EXCEPT ![b].copies = books'[b].copies]
           /\ Len(borrowed_books') = n + 1
           /\ \A i \in 1..n : borrowed_books'[i] = borrowed_books[i]
           /\ borrowed_books'[n + 1].book_id = b
           /\ borrowed_books'[n + 1].reader_id = r
           /\ borrowed_books'[n + 1].return_date = NULL
           /\ borrowed_books'[n + 1].id = resp'.id
           /\ \A i \in 1..n : borrowed_books[i].id # resp'.id
           /\ readers' = readers]_vars

\* a borrow succeeded while another book and other rows existed
C4_Witness ==
    /\ resp.op = "borrow" /\ resp.status = 201
    /\ Len(borrowed_books) >= 2
    /\ \E x \in BookIds \ {resp.book_id} : books[x].exists

C6_AtomicCommit ==
    [][(\/ borrowed_books' # borrowed_books
        \/ \E b \in BookIds : books[b].exists /\ books'[b] # books[b]) =>
        \E p \in Procs :
            /\ req[p].pc = "commit" /\ req'[p].pc = "done"
            /\ IF req[p].op = "borrow"
               THEN /\ books' = [books EXCEPT ![req[p].book_id].copies = req[p].copies - 1]
                    /\ borrowed_books' =
                         Append(borrowed_books,
                                [id |-> Len(borrowed_books) + 1,
                                 book_id |-> req[p].book_id,
                                 reader_id |-> req[p].reader_id,
                                 return_date |-> NULL])
               ELSE /\ books' = [books EXCEPT ![req[p].book_id].copies = req[p].copies + 1]
                    /\ Len(borrowed_books') = Len(borrowed_books)
                    /\ borrowed_books'[req[p].rec].return_date # NULL
                    /\ \A i \in Rows \ {req[p].rec} : borrowed_books'[i] = borrowed_books[i]]_vars

\* a session was cancelled after it had flushed its UPDATE, while the other
\* session's borrow is committed
C6_Witness ==
    /\ \E p \in Procs : req[p].pc = "rolled_back"
    /\ Len(borrowed_books) = 1
    /\ \E b \in BookIds : books[b].exists /\ books[b].copies = 0

\* C7 (Spec), as claimed: for every (book, reader) pair at most one row has
\* a null return timestamp.
C7_AtMostOneActivePerPair ==
    \A b \in BookIds, r \in ReaderIds :
        Cardinality(borrow_records(borrowed_books, b, r)) <= 1

\* C8 (Spec): a borrow of an existing book with copy count 0 by an existing
\* reader fails with 400 "no copies", whatever the reader's number of active
\* loans, and changes no table.
C8_NoCopies ==
    [][(/\ resp'.op = "borrow"
        /\ books[resp'.book_id].exists
        /\ readers[resp'.reader_id].exists
        /\ books[resp'.book_id].copies = 0) =>
        /\ resp'.status = 400 /\ resp'.detail = "no_copies"
        /\ UNCHANGED db]_vars

\* the refusal "no copies" went to a reader who holds 3 active loans
C8_Witness ==
    /\ resp.op = "borrow" /\ resp.detail = "no_copies"
    /\ Cardinality(active_borrows(borrowed_books, resp.reader_id)) = 3

\* C9 (Spec): borrow reports the first failing check in the order book
\* exists, reader exists, copies >= 1, active loans < 3; a 400 is only ever
\* reported when both the book and the reader exist.
C9_CheckOrder ==
    [][resp'.op = "borrow" =>
        LET b == resp'.book_id
            r == resp'.reader_id
            active == Cardinality(active_borrows(borrowed_books, r))
        IN /\ ~books[b].exists => resp'.status = 404 /\ resp'.detail = "book_not_found"
           /\ books[b].exists /\ ~readers[r].exists =>
                resp'.status = 404 /\ resp'.detail = "reader_not_found"
           /\ books[b].exists /\ readers[r].exists /\ books[b].copies < 1 =>
                resp'.status = 400 /\ resp'.detail = "no_copies"
           /\ books[b].exists /\ readers[r].exists /\ books[b].copies >= 1 /\ active >= 3 =>
                resp'.status = 400 /\ resp'.detail = "limit_exceeded"
           /\ resp'.status = 400 => books[b].exists /\ readers[r].exists]_vars

\* "reader not found" was reported for a book that has 0 copies
C9_Witness ==
    /\ resp.op = "borrow" /\ resp.detail = "reader_not_found"
    /\ books[resp.book_id].exists /\ books[resp.book_id].copies = 0
    /\ ~readers[resp.reader_id].exists

\* C10 (Spec): for an existing reader and an existing book with a copy
\* count >= 1, borrow fails with 400 "limit exceeded" exactly when the
\* reader has 3 or more rows with a null return timestamp, and succeeds
\* otherwise; returned rows do not count.
C10_LimitExactly ==
    [][(/\ resp'.op = "borrow"
        /\ books[resp'.book_id].exists
        /\ readers[resp'.reader_id].exists
        /\ books[resp'.book_id].copies >= 1) =>
        LET active == {i \in Rows : /\ borrowed_books[i].reader_id = resp'.reader_id
                                    /\ borrowed_books[i].return_date = NULL}
        IN /\ (resp'.status = 400 /\ resp'.detail = "limit_exceeded")
                <=> Cardinality(active) >= 3
           /\ resp'.status = 201 <=> Cardinality(active) < 3]_vars

\* a reader with 3 earlier rows, one of them returned, borrowed again
C10_Witness ==
    /\ resp.op = "borrow" /\ resp.status = 201
    /\ \E i \in Rows : /\ borrowed_books[i].reader_id = resp.reader_id
                       /\ borrowed_books[i].return_date # NULL
    /\ Cardinality({i \in Rows : borrowed_books[i].reader_id = resp.reader_id}) >= 4

\* C11 (Spec): a borrowed_books row appears only as the row appended by a
\* successful borrow; an existing row changes only in a successful return
\* of that row, which finds its return timestamp null and sets it; a row
\* with a non-null return timestamp never changes again, and no request
\* removes a row.
C11_RowLifecycle ==
    [][LET n == Len(borrowed_books) IN
       /\ Len(borrowed_books') >= n
       /\ Len(borrowed_books') > n =>
            /\ Len(borrowed_books') = n + 1
            /\ resp'.op = "borrow" /\ resp'.status = 201 /\ resp'.id = n + 1
       /\ \A i \in 1..n :
            borrowed_books'[i] # borrowed_books[i] =>
                /\ resp'.op = "return" /\ resp'.status = 200 /\ resp'.id = i
                /\ borrowed_books'[i].return_date # NULL
                /\ borrowed_books'[i] =
                     [borrowed_books[i] EXCEPT !.return_date = borrowed_books'[i].return_date]
       /\ (resp'.op = "return" /\ resp'.status = 200) =>
            borrowed_books[resp'.id].return_date = NULL
       /\ \A i \in 1..n :
            borrowed_books[i].return_date # NULL => borrowed_books'[i] = borrowed_books[i]]_vars

\* a pair borrowed again after its earlier loan was returned: the returned
\* row is still there next to the new one
C11_Witness ==
    /\ resp.op = "borrow" /\ resp.status = 201
    /\ \E i \in Rows : /\ i < resp.id
                       /\ borrowed_books[i].book_id = resp.book_id
                       /\ borrowed_books[i].reader_id = resp.reader_id
                       /\ borrowed_books[i].return_date # NULL
    /\ borrowed_books[resp.id].return_date = NULL

\* C12 (SpecList): listing the active loans of a reader fails with 404
\* (reader) when no reader has that identifier, and otherwise returns
\* exactly the rows of that reader whose return timestamp is null.
C12_ListActiveBorrows ==
    [][resp'.op = "get_active_borrows" =>
        LET r == resp'.reader_id IN
        IF ~readers[r].exists
        THEN resp'.status = 404 /\ resp'.detail = "reader_not_found"
        ELSE /\ resp'.status = 200
             /\ resp'.rows = {i \in Rows : /\ borrowed_books[i].reader_id = r
                                           /\ borrowed_books[i].return_date = NULL}]_vars

\* C13 (SpecCrud): creating a reader whose email is that of an existing
\* reader, or a book whose ISBN is that of an existing book, fails with 400
\* and adds no row; creating with an email / ISBN that no row holds succeeds
\* and adds exactly one row.
C13_DuplicateRejected ==
    [][/\ \A isbn \in IsbnsIn, copies \in 0 .. MaxCopies :
            create_book(isbn, copies) =>
                IF \E x \in BookIds : books[x].exists /\ books[x].isbn = isbn
                THEN resp'.status = 400 /\ books' = books
                ELSE /\ resp'.status = 201
                     /\ \E id \in BookIds :
                            /\ ~books[id].exists
                            /\ books' = [books EXCEPT ![id] = books'[id]]
                            /\ books'[id].exists /\ books'[id].isbn = isbn
       /\ \A name \in Names, email \in Emails :
            create_reader(name, email) =>
                IF \E x \in ReaderIds : readers[x].exists /\ readers[x].email = email
                THEN resp'.status = 400 /\ readers' = readers
                ELSE /\ resp'.status = 201
                     /\ \E id \in ReaderIds :
                            /\ ~readers[id].exists
                            /\ readers' = [readers EXCEPT ![id] = readers'[id]]
                            /\ readers'[id].exists /\ readers'[id].email = email]_vars

\* C14 (SpecCrudConc): in every state reached by any interleaving of create
\* and update requests on books and readers, no two readers have the same
\* email and no two books have the same non-null ISBN.
C14_UniqueKeys ==
    /\ \A x, y \in ReaderIds :
            (x # y /\ readers[x].exists /\ readers[y].exists) =>
                readers[x].email # readers[y].email
    /\ \A x, y \in BookIds :
            (x # y /\ books[x].exists /\ books[y].exists /\ books[x].isbn # NULL) =>
                books[x].isbn # books[y].isbn

\* two concurrent creates of readers both passed the lookup on an empty
\* table; the second one to commit was stopped by the unique index
C14_Witness ==
    /\ resp.op = "create_reader"
    /\ resp.status = 500 /\ resp.detail = "integrity_error"
    /\ readers[1].exists /\ ~readers[2].exists
    /\ \A p \in Procs : req[p].pc = "done"

\* C15 (SpecCrud): a successful update of a book or of a reader gives every
\* field present in the request the value of the request and leaves every
\* absent field, every other row and the other tables unchanged.
C15_UpdateFrame ==
    [][/\ (resp'.op = "update_book" /\ resp'.status = 200) =>
            \A b \in {resp'.book_id}, d \in BookUpdatesCrud :
            update_book(b, d) =>
                /\ books'[b].exists
                /\ books'[b].isbn = IF "isbn" \in d.fields THEN d.isbn ELSE books[b].isbn
                /\ books'[b].copies =
                     IF "copies" \in d.fields THEN d.copies[1] ELSE books[b].copies
                /\ \A x \in BookIds \ {b} : books'[x] = books[x]
                /\ readers' = readers /\ borrowed_books' = borrowed_books
       /\ (resp'.op = "update_reader" /\ resp'.status = 200) =>
            \A r \in {resp'.reader_id}, d \in ReaderUpdates :
            update_reader(r, d) =>
                /\ readers'[r].exists
                /\ readers'[r].name = IF "name" \in d.fields THEN d.name ELSE readers[r].name
                /\ readers'[r].email =
                     IF "email" \in d.fields THEN d.email ELSE readers[r].email
                /\ \A x \in ReaderIds \ {r} : readers'[x] = readers[x]
                /\ books' = books /\ borrowed_books' = borrowed_books]_vars

\* a reader was updated next to another reader, after a book update had
\* set the ISBN of one of two books to null
C15_Witness ==
    /\ resp.op = "update_reader" /\ resp.status = 200
    /\ readers[resp.reader_id].name = "Bob"
    /\ \A x \in ReaderIds : readers[x].exists
    /\ \E x, y \in BookIds : /\ x # y
                             /\ books[x].exists /\ books[x].isbn = NULL
                             /\ books[y].exists /\ books[y].isbn # NULL

\* C16 (SpecAuth): every book, reader and circulation route called without
\* a bearer token, or with a token that fails verification, answers 401,
\* returns no row and leaves books, readers and loans unchanged.
C16_Unauthorized ==
    [][LET Denied == /\ resp'.status = 401
                     /\ resp'.id = 0
                     /\ "rows" \notin DOMAIN resp'
                     /\ books' = books
                     /\ readers' = readers
                     /\ borrowed_books' = borrowed_books
       IN
       \* a step that is not such a refusal is no step of a request with a
       \* missing or failing token
       Denied \/ \A token \in {"none", "garbage", "expired"} :
        /\ resp'.op = "create_book" =>
             \A isbn \in AuthIsbns : ~POST_books(token, isbn, 1)
        /\ resp'.op = "get_books" => ~GET_books(token)
        /\ resp'.op = "get_book" => \A b \in BookIds : ~GET_book(token, b)
        /\ resp'.op = "update_book" =>
             \A b \in BookIds, d \in AuthBookUpdates : ~PUT_book(token, b, d)
        /\ resp'.op = "delete_book" => \A b \in BookIds : ~DELETE_book(token, b)
        /\ resp'.op = "create_reader" =>
             \A email \in AuthEmails : ~POST_readers(token, "Ann", email)
        /\ resp'.op = "get_readers" => ~GET_readers(token)
        /\ resp'.op = "get_reader" => \A r \in ReaderIds : ~GET_reader(token, r)
        /\ resp'.op = "update_reader" =>
             \A r \in ReaderIds, d \in AuthReaderUpdates : ~PUT_reader(token, r, d)
        /\ resp'.op = "delete_reader" => \A r \in ReaderIds : ~DELETE_reader(token, r)
        /\ resp'.op = "borrow" =>
             \A b \in BookIds, r \in ReaderIds : ~POST_borrow(token, b, r)
        /\ resp'.op = "return" =>
             \A b \in BookIds, r \in ReaderIds : ~POST_return(token, b, r)]_vars

\* a return request was refused with 401 while a loan is open
C16_Witness ==
    /\ resp.op = "return" /\ resp.status = 401
    /\ \E i \in Rows : borrowed_books[i].return_date = NULL

\* C17 (Spec): return reports the first failing check in the order book
\* exists, reader exists, active loan exists: a missing book gives 404
\* (book) even if the reader is missing, a missing reader gives 404 (reader)
\* even if the pair has no active loan, and "no active loan" is only ever
\* reported when both the book and the reader exist.
C17_ReturnCheckOrder ==
    [][resp'.op = "return" =>
        LET b == resp'.book_id
            r == resp'.reader_id
            recs == {i \in Rows : /\ borrowed_books[i].book_id = b
                                  /\ borrowed_books[i].reader_id = r
                                  /\ borrowed_books[i].return_date = NULL}
        IN /\ ~books[b].exists => resp'.status = 404 /\ resp'.detail = "book_not_found"
           /\ books[b].exists /\ ~readers[r].exists =>
                resp'.status = 404 /\ resp'.detail = "reader_not_found"
           /\ books[b].exists /\ readers[r].exists /\ recs = {} =>
                resp'.status = 404 /\ resp'.detail = "record_not_found"
           /\ resp'.detail = "record_not_found" => books[b].exists /\ readers[r].exists]_vars

\* "reader not found" was reported for an existing book and a pair without
\* an active loan, while another reader holds a loan of that book
C17_Witness ==
    /\ resp.op = "return" /\ resp.status = 404 /\ resp.detail = "reader_not_found"
    /\ books[resp.book_id].exists
    /\ ~readers[resp.reader_id].exists
    /\ \A i \in Rows : borrowed_books[i].reader_id # resp.reader_id
    /\ \E i \in Rows : /\ borrowed_books[i].book_id = resp.book_id
                       /\ borrowed_books[i].return_date = NULL

\* C18 (Spec): whenever the book exists, the reader exists and the pair has
\* at least one row with a null return timestamp, return succeeds with the
\* updated record and never ends in another outcome.
C18_ActiveLoanCanBeClosed ==
    [][(/\ resp'.op = "return"
        /\ books[resp'.book_id].exists
        /\ readers[resp'.reader_id].exists
        /\ \E i \in Rows : /\ borrowed_books[i].book_id = resp'.book_id
                           /\ borrowed_books[i].reader_id = resp'.reader_id
                           /\ borrowed_books[i].return_date = NULL) =>
        /\ resp'.status = 200
        /\ resp'.id \in Rows
        /\ borrowed_books'[resp'.id].return_date # NULL]_vars

\* C19 (SpecConc): every borrow that succeeds takes a copy that is there:
\* the step that adds the loan row finds a copy count >= 1, so the
\* successful concurrent borrows of a book never outnumber the copies it had
\* before them.
C19_BorrowTakesACopy ==
    [][Len(borrowed_books') > Len(borrowed_books) =>
        LET b == borrowed_books'[Len(borrowed_books')].book_id
        IN books[b].copies >= 1]_vars

\* C20 (SpecLimit): under any interleaving of concurrent borrow requests
\* of one reader, the reader never has more than 3 rows with a null return
\* timestamp.
C20_AtMostThreeActiveConc ==
    \A r \in ReaderIds :
        Cardinality({i \in Rows : /\ borrowed_books[i].reader_id = r
                                  /\ borrowed_books[i].return_date = NULL}) <= BORROW_LIMIT

\* C21 (Spec): for every book, copy count plus the number of the book's
\* rows with a null return timestamp stays what it was when the book was
\* created: a new book has no loan row, and no borrow or return request
\* changes the sum.
C21_CopiesConserved ==
    [][\A b \in BookIds :
        LET out(lns) == Cardinality({i \in DOMAIN lns : /\ lns[i].book_id = b
                                                        /\ lns[i].return_date = NULL})
        IN /\ (~books[b].exists /\ books'[b].exists) => out(borrowed_books') = 0
           /\ books[b].exists =>
                /\ books'[b].exists
                /\ books'[b].copies + out(borrowed_books') =
                     books[b].copies + out(borrowed_books)]_vars

\* a return put a copy back while another copy of the same book is still
\* out and an earlier loan of the book is closed
C21_Witness ==
    /\ resp.op = "return" /\ resp.status = 200
    /\ books[resp.book_id].copies >= 1
    /\ \E i, j \in Rows : /\ i # j /\ i # resp.id /\ j # resp.id
                          /\ borrowed_books[i].book_id = resp.book_id
                          /\ borrowed_books[j].book_id = resp.book_id
                          /\ borrowed_books[i].return_date = NULL
                          /\ borrowed_books[j].return_date # NULL

\* C22 (Spec): a borrow or return request that ends in an error (404 book,
\* 404 reader, 404 active loan, 400 no copies, 400 limit exceeded, or any
\* other status >= 400) leaves every copy count and every loan row as it
\* was.
C22_ErrorsChangeNothing ==
    [][(resp'.op \in {"borrow", "return"} /\ resp'.status >= 400) =>
        /\ books' = books
        /\ borrowed_books' = borrowed_books
        /\ readers' = readers]_vars

\* a return was refused with "no active loan" although the reader holds a
\* loan of another book and the book is lent to another reader
C22_Witness ==
    /\ resp.op = "return" /\ resp.status = 404 /\ resp.detail = "record_not_found"
    /\ \E i, j \in Rows : /\ borrowed_books[i].reader_id = resp.reader_id
                          /\ borrowed_books[i].book_id # resp.book_id
                          /\ borrowed_books[i].return_date = NULL
                          /\ borrowed_books[j].book_id = resp.book_id
                          /\ borrowed_books[j].reader_id # resp.reader_id
                          /\ borrowed_books[j].return_date = NULL

\* C23 (SpecDelete): in every state reached by create, delete, borrow and
\* return requests, every loan row references a book and a reader that
\* exist.
C23_NoDanglingLoan ==
    \A i \in Rows : /\ books[borrowed_books[i].book_id].exists
                    /\ readers[borrowed_books[i].reader_id].exists

\* the deletion of a book whose only loan is closed was refused, after a
\* book without loan rows had been deleted
C23_Witness ==
    /\ resp.op = "delete_book" /\ resp.status = 500
    /\ books[resp.book_id].exists
    /\ \E i \in Rows : borrowed_books[i].book_id = resp.book_id
    /\ \A i \in Rows : borrowed_books[i].return_date # NULL
    /\ \E b \in BookIds : books[b].deleted

====
